---------------------------- MODULE Spec2Model ----------------------------
(***************************************************************************)
(* A model of lamarck's caption generation (src/src/captions.rs):          *)
(* generate_captions, the output-path arithmetic it performs with          *)
(* Utf8PathBuf, and the two subtitle renderers (mod srt, mod               *)
(* beast_captions) it calls.  The renderers and the timecode formatter are *)
(* not part of captions.rs; they are modelled from sections 4.1-4.3 of the *)
(* specification.                                                          *)
(*                                                                         *)
(* Strings are sequences of tokens.  A token is either the dot ".", or a   *)
(* dot-free piece of text ("a", "srt", "-channel-", a decimal digit, ...). *)
(* Seconds (f64) are records [whole, micros]: whole seconds and the        *)
(* microseconds (0..999999) beyond them.                                   *)
(***************************************************************************)
EXTENDS Integers, Sequences, FiniteSets, TLC

VARIABLES
    options,        \* the Caption arguments (captions.rs:24-84)
    pc,             \* position inside generate_captions
    result,         \* what generate_captions returned (or how it aborted)
    source,         \* the AudioSource built from options.input
    dg_calls,       \* the calls made to the transcription provider: their outcomes
    response,       \* the provider's response
    srts,           \* Srt::from(response).channels / BeastCaptions::from(..).channels
    visited,        \* documents of the running loop already written
    written,        \* the files created so far, in order of creation
    tc              \* the timecode formatter under test

vars == <<options, pc, result, source, dg_calls, response, srts, visited, written, tc>>

-----------------------------------------------------------------------------
(* Bounds of the model *)

MaxChannels == 2
MaxAlternatives == 2
MaxCues == 2
MaxHours == 99

-----------------------------------------------------------------------------
(* Small helpers *)

Digits == <<"0", "1", "2", "3", "4", "5", "6", "7", "8", "9">>

RECURSIVE Decimal(_)
\* format!("{n}") for an unsigned integer: its decimal digits
Decimal(n) ==
    IF n < 10 THEN <<Digits[n + 1]>>
    ELSE Decimal(n \div 10) \o <<Digits[(n % 10) + 1]>>

RECURSIVE Flatten(_)
Flatten(ss) == IF ss = <<>> THEN <<>> ELSE Head(ss) \o Flatten(Tail(ss))

-----------------------------------------------------------------------------
(* Utf8PathBuf.  A path is [kind, dir, name]: kind "file" has a final      *)
(* normal component `name` below the directory `dir` ("" when the path is  *)
(* a bare file name); kind "nofile" is a path without a file name ("/",    *)
(* "..", "missing/..", ""), kept whole in `dir`, with name <<>>; kind      *)
(* "none" is the absent Option<Utf8PathBuf>.                               *)

FilePath(dir, name) == [kind |-> "file", dir |-> dir, name |-> name]
NoFilePath(text) == [kind |-> "nofile", dir |-> text, name |-> <<>>]
NoPath == [kind |-> "none", dir |-> "", name |-> <<>>]

\* directories that exist when generate_captions runs
ExistingDirs == {"/", "..", "out"}

\* Path::exists, for a directory (or a path without a file name) of the model
exists(dir) == dir \in ExistingDirs

\* Path::file_name; <<>> stands for None
file_name(p) == IF p.kind = "file" THEN p.name ELSE <<>>

\* Path::parent of a path that has a file name (always Some)
parent(p) == p.dir

\* index of the last "." of a file name, 0 when there is none
LastDot(name) ==
    LET dots == {i \in 1..Len(name) : name[i] = "."}
    IN  IF dots = {} THEN 0 ELSE CHOOSE i \in dots : \A j \in dots : j <= i

\* std::path's rsplit_file_at_dot: <<before, after>>; <<>> stands for None
rsplit_file_at_dot(name) ==
    LET i == LastDot(name)
    IN  IF i = 0 THEN <<<<>>, name>>
        ELSE IF i = 1 THEN <<name, <<>>>>
        ELSE <<SubSeq(name, 1, i - 1), SubSeq(name, i + 1, Len(name))>>

\* Path::file_stem: before.or(after); <<>> stands for None
file_stem(p) ==
    IF file_name(p) = <<>> THEN <<>>
    ELSE LET ba == rsplit_file_at_dot(file_name(p))
         IN  IF LastDot(file_name(p)) = 0 THEN ba[2] ELSE ba[1]

\* PathBuf::set_file_name: pop the file name when there is one, then push
set_file_name(p, name) == FilePath(p.dir, name)

\* PathBuf::set_extension with a non-empty extension: nothing happens without
\* a file stem; otherwise the path is cut right after the file stem and
\* "." and the extension are appended
set_extension(p, ext) ==
    IF file_stem(p) = <<>> THEN p
    ELSE [p EXCEPT !.name = file_stem(p) \o <<".">> \o ext]

-----------------------------------------------------------------------------
(* The timecode formatter (specification 4.1): seconds to HH:MM:SS,mmm.    *)

Seconds(whole, micros) == [whole |-> whole, micros |-> micros]

\* a variant of total_ms that rounds to the nearest millisecond
total_ms_rounded(seconds) == seconds.whole * 1000 + (seconds.micros + 500) \div 1000

\* total_ms = floor(seconds * 1000)
total_ms(seconds) == seconds.whole * 1000 + seconds.micros \div 1000

\* hours, minutes, seconds and milliseconds of a whole-millisecond value
timecode_parts(ms) ==
    [hh  |-> ms \div 3600000,
     mm  |-> (ms % 3600000) \div 60000,
     ss  |-> (ms % 60000) \div 1000,
     mmm |-> ms % 1000]

RECURSIVE zero_pad(_, _)
\* {:0width$}: the decimal digits of n, zero-padded on the left to `width`
zero_pad(digits, width) ==
    IF Len(digits) >= width THEN digits ELSE zero_pad(<<"0">> \o digits, width)

\* the timecode of a non-negative seconds value
format_timecode(seconds) ==
    LET p == timecode_parts(total_ms(seconds))
    IN  zero_pad(Decimal(p.hh), 2) \o <<":">> \o zero_pad(Decimal(p.mm), 2)
        \o <<":">> \o zero_pad(Decimal(p.ss), 2) \o <<",">>
        \o zero_pad(Decimal(p.mmm), 3)

\* what stands in a cue for a timestamp the formatter cannot represent
CorruptTimecode == <<"-">>

\* a timestamp the formatter accepts (0 <= seconds)
valid_timestamp(seconds) == seconds.whole >= 0

-----------------------------------------------------------------------------
(* The renderers (specification 4.2, 4.3).  A document is the sequence of  *)
(* its cues; a renderer returns documents[channel][alternative].           *)

timecode_or_corrupt(seconds) ==
    IF valid_timestamp(seconds) THEN format_timecode(seconds) ELSE CorruptTimecode

\* one cue per source unit (utterance or word), numbered from 1
render_document(units) ==
    [k \in 1..Len(units) |->
        [index |-> k,
         start |-> timecode_or_corrupt(units[k].start),
         end   |-> timecode_or_corrupt(units[k].end),
         text  |-> units[k].text]]

\* Srt::from(response).channels: one utterance document per alternative
SrtFrom(resp) ==
    [c \in 1..Len(resp.channels) |->
        [a \in 1..Len(resp.channels[c].alternatives) |->
            render_document(resp.channels[c].alternatives[a].utterances)]]

\* BeastCaptions::from(response).channels: one word document per alternative
BeastCaptionsFrom(resp) ==
    [c \in 1..Len(resp.channels) |->
        [a \in 1..Len(resp.channels[c].alternatives) |->
            render_document(resp.channels[c].alternatives[a].words)]]

\* the source units a renderer reads from one alternative
units_of(renderer, alternative) ==
    IF renderer = "srt" THEN alternative.utterances ELSE alternative.words

\* some unit of the response, as read by `renderer`, has a bad timestamp
has_invalid_timestamp(renderer, resp) ==
    \E c \in 1..Len(resp.channels) :
        \E a \in 1..Len(resp.channels[c].alternatives) :
            LET us == units_of(renderer, resp.channels[c].alternatives[a])
            IN  \E k \in 1..Len(us) :
                    ~valid_timestamp(us[k].start) \/ ~valid_timestamp(us[k].end)

-----------------------------------------------------------------------------
(* The transcription results the provider may return.                      *)

\* n units of alternative (c, a); consecutive units overlap in time, and
\* the alternatives of one channel cover the same span
make_units(tag, c, a, n) ==
    [k \in 1..n |->
        [text  |-> <<tag>> \o Decimal(c) \o Decimal(a) \o Decimal(k),
         start |-> Seconds(c * 3661 + (k - 1) + 59, 999900),
         end   |-> Seconds(c * 3661 + (k - 1) + 61, 234000)]]

FullAlternative(c, a) ==
    [transcript |-> <<"t">> \o Decimal(c) \o Decimal(a),
     words      |-> make_units("w", c, a, MaxCues + 1),
     utterances |-> make_units("u", c, a, MaxCues)]

EmptyAlternative ==
    [transcript |-> <<>>, words |-> <<>>, utterances |-> <<>>]

\* FullAlternative with the start of its last word and utterance at -1 s
NegativeAlternative(c, a) ==
    LET f == FullAlternative(c, a)
    IN  [f EXCEPT !.words[Len(f.words)].start = Seconds(-1, 0),
                  !.utterances[Len(f.utterances)].start = Seconds(-1, 0)]

\* "empty": no alternative has a word or an utterance; "mixed": alternative
\* (c, a) has them when c + a is even; "negative": all have them, and
\* alternative (0, 0) has a negative timestamp
Fills == {"empty", "mixed", "negative"}

Alternative(fill, c, a) ==
    CASE fill = "empty" -> EmptyAlternative
      [] fill = "mixed" -> IF (c + a) % 2 = 0 THEN FullAlternative(c, a)
                           ELSE EmptyAlternative
      [] OTHER -> IF c = 0 /\ a = 0 THEN NegativeAlternative(c, a)
                  ELSE FullAlternative(c, a)

\* the number of alternatives of each channel
Shapes == UNION {[1..n -> 0..MaxAlternatives] : n \in 0..MaxChannels}

MakeResponse(shape, fill) ==
    [channels |->
        [c \in 1..Len(shape) |->
            [alternatives |->
                [a \in 1..shape[c] |-> Alternative(fill, c - 1, a - 1)]]]]

Responses == {MakeResponse(shape, fill) : shape \in Shapes, fill \in Fills}

NoResponse == [channels |-> <<>>]

-----------------------------------------------------------------------------
(* generate_captions (captions.rs:129-340)                                 *)

OutputPaths ==
    {NoPath,
     FilePath("", <<"a">>),
     FilePath("", <<"a", ".", "srt">>),
     FilePath("", <<"a", ".", "b", ".", "srt">>),
     FilePath("", <<".", "a", ".", "srt">>),
     FilePath("out", <<"a", ".", "b", ".", "srt">>),
     FilePath("missing", <<"a", ".", "srt">>),
     NoFilePath("/"), NoFilePath(".."), NoFilePath("missing/.."), NoFilePath("")}

\* what options.input turns out to be when the source is built
Inputs == {"url", "audio_file", "video_file", "unknown_file", "missing_file"}

Running == [kind |-> "Running", error |-> "", output_dir |-> NoPath]
Ok == [kind |-> "Ok", error |-> "", output_dir |-> NoPath]
Err(error) == [kind |-> "Err", error |-> error, output_dir |-> NoPath]
Panic(at) == [kind |-> "Panic", error |-> at, output_dir |-> NoPath]

TcIdle == [pc |-> "idle", seconds |-> Seconds(0, 0), text |-> <<>>, ms |-> 0]

Init ==
    /\ options \in [output_path : OutputPaths, raw : BOOLEAN, srt : BOOLEAN,
                    beast_captions : BOOLEAN, transcript : BOOLEAN]
    /\ pc = "check_output_dir"
    /\ result = Running
    /\ source = "none"
    /\ dg_calls = <<>>
    /\ response = NoResponse
    /\ srts = <<>>
    /\ visited = 0
    /\ written = <<>>
    /\ tc = TcIdle

\* options.output_path.clone().unwrap_or(Utf8PathBuf::from("transcript.srt"))
output_location ==
    IF options.output_path = NoPath
    THEN FilePath("", <<"transcript", ".", "srt">>)
    ELSE options.output_path

\* a variant of output_dir_exists that asks whether the empty parent of a
\* bare file name exists
output_dir_exists_strict(loc) ==
    IF file_name(loc) # <<>> THEN exists(parent(loc)) ELSE exists(loc.dir)

\* the match on output_location.file_name()
output_dir_exists(loc) ==
    IF file_name(loc) # <<>>
    THEN IF parent(loc) = "" THEN TRUE ELSE exists(parent(loc))
    ELSE exists(loc.dir)

CheckOutputDir ==
    /\ pc = "check_output_dir"
    /\ IF ~output_dir_exists(output_location)
       THEN /\ result' = [kind |-> "Err", error |-> "OutputDirNotExistError",
                          output_dir |-> output_location]
            /\ pc' = "done"
       ELSE /\ result' = result
            /\ pc' = "source"
    /\ UNCHANGED <<options, source, dg_calls, response, srts, visited, written, tc>>

\* Url::parse(&options.input), then File::open(..).unwrap() and mime_guess
OpenSource ==
    /\ pc = "source"
    /\ \E input \in Inputs :
        CASE input = "url" ->
                source' = "url" /\ pc' = "deepgram" /\ result' = result
          [] input = "audio_file" ->
                source' = "buffer" /\ pc' = "deepgram" /\ result' = result
          [] input = "video_file" ->
                source' = "file" /\ pc' = "done" /\ result' = Err("InvalidMimeType")
          [] input = "unknown_file" ->
                source' = "file" /\ pc' = "done" /\ result' = Err("MimeGuessError")
          [] OTHER ->
                source' = source /\ pc' = "done" /\ result' = Panic("File::open")
    /\ UNCHANGED <<options, dg_calls, response, srts, visited, written, tc>>

\* a variant of CallDeepgram that calls the provider again after a failure
CallDeepgramRetrying ==
    /\ pc = "deepgram"
    /\ source' = "moved"
    /\ \/ \E r \in Responses :
            /\ dg_calls' = Append(dg_calls, "ok")
            /\ response' = r
            /\ pc' = "raw"
            /\ result' = result
       \/ /\ dg_calls' = Append(dg_calls, "failed")
          /\ response' = response
          /\ pc' = IF Len(dg_calls) = 0 THEN "deepgram" ELSE "done"
          /\ result' = IF Len(dg_calls) = 0 THEN result ELSE Err("DeepgramError")
    /\ UNCHANGED <<options, srts, visited, written, tc>>

\* dg_client.transcription().prerecorded(source, &deepgram_options).await?
\* with From<DeepgramError> for CaptionError
CallDeepgram ==
    /\ pc = "deepgram"
    /\ source' = "moved"
    /\ \/ \E r \in Responses :
            /\ dg_calls' = Append(dg_calls, "ok")
            /\ response' = r
            /\ pc' = "raw"
            /\ result' = result
       \/ /\ dg_calls' = Append(dg_calls, "failed")
          /\ response' = response
          /\ pc' = "done"
          /\ result' = Err("DeepgramError")
    /\ UNCHANGED <<options, srts, visited, written, tc>>

NoCues == <<>>

FileEntry(path, kind, c, a, text, cues, complete) ==
    [path |-> path, kind |-> kind, channel_id |-> c, alternative_id |-> a,
     text |-> text, cues |-> cues, complete |-> complete]

\* File::create(output).await? and write_all(..).await?: the file is created
\* and written, or created and the write fails, or not created at all (always
\* so for a path that is a directory)
CreateAndWrite(output, kind, c, a, text, cues, ok_pc) ==
    \/ /\ output.kind = "file"
       /\ written' = Append(written, FileEntry(output, kind, c, a, text, cues, TRUE))
       /\ pc' = ok_pc
       /\ result' = result
    \/ /\ output.kind = "file"
       /\ written' = Append(written, FileEntry(output, kind, c, a, <<>>, NoCues, FALSE))
       /\ pc' = "done"
       /\ result' = Err("IoError")
    \/ /\ written' = written
       /\ pc' = "done"
       /\ result' = Err("IoError")

\* if options.raw { .. }
WriteRaw ==
    /\ pc = "raw"
    /\ IF options.raw
       THEN CreateAndWrite(set_extension(output_location, <<"raw">>), "raw", 0, 0,
                           <<"{:#?}">>, NoCues, "transcript")
       ELSE pc' = "transcript" /\ UNCHANGED <<result, written>>
    /\ UNCHANGED <<options, source, dg_calls, response, srts, visited, tc>>

\* response.results.channels[0].alternatives[0] exists
has_first_alternative(resp) ==
    /\ Len(resp.channels) > 0
    /\ Len(resp.channels[1].alternatives) > 0

\* if options.transcript { .. }
WriteTranscript ==
    /\ pc = "transcript"
    /\ IF ~options.transcript
       THEN pc' = "srt" /\ UNCHANGED <<result, written>>
       ELSE IF ~has_first_alternative(response)
       THEN pc' = "done" /\ result' = Panic("channels[0].alternatives[0]")
            /\ written' = written
       ELSE CreateAndWrite(set_extension(output_location, <<"txt">>), "txt", 0, 0,
                           response.channels[1].alternatives[1].transcript,
                           NoCues, "srt")
    /\ UNCHANGED <<options, source, dg_calls, response, srts, visited, tc>>

\* a variant of document_order that passes over documents without cues
document_order_skipping_empty(docs) ==
    Flatten([c \in 1..Len(docs) |->
                SelectSeq([a \in 1..Len(docs[c]) |-> <<c - 1, a - 1>>],
                          LAMBDA p : docs[c][p[2] + 1] # <<>>)])

\* the (channel_id, alternative_id) pairs of documents[channel][alternative]
\* in the order of the nested `for .. in .. .iter().enumerate()` loops
document_order(docs) ==
    Flatten([c \in 1..Len(docs) |->
                [a \in 1..Len(docs[c]) |-> <<c - 1, a - 1>>]])

\* format!("{file_stem}-channel-{channel_id}-alternative-{alternative_id}")
srt_file_stem(stem, channel_id, alternative_id) ==
    stem \o <<"-channel-">> \o Decimal(channel_id)
         \o <<"-alternative-">> \o Decimal(alternative_id)

\* format!("{file_stem}-channel-{channel_id}-alternative-{alternative_id}-beast")
beast_file_stem(stem, channel_id, alternative_id) ==
    stem \o <<"-channel-">> \o Decimal(channel_id)
         \o <<"-alternative-">> \o Decimal(alternative_id) \o <<"-beast">>

\* output.set_file_name(new_file_stem); output.set_extension("srt")
srt_output(loc, channel_id, alternative_id) ==
    set_extension(
        set_file_name(loc, srt_file_stem(file_stem(loc), channel_id, alternative_id)),
        <<"srt">>)

beast_output(loc, channel_id, alternative_id) ==
    set_extension(
        set_file_name(loc, beast_file_stem(file_stem(loc), channel_id, alternative_id)),
        <<"srt">>)

\* a variant of loop_document that always takes the channel's first alternative
loop_document_first_alternative(docs, channel_id, alternative_id) ==
    docs[channel_id + 1][1]

\* the document the loop body writes for (channel_id, alternative_id)
loop_document(docs, channel_id, alternative_id) ==
    docs[channel_id + 1][alternative_id + 1]

\* the flag that selects the utterance renderer
srt_selected == options.srt

\* a variant of beast_selected that reads the srt flag
beast_selected_by_srt_flag == options.srt

\* the flag that selects the word renderer
beast_selected == options.beast_captions

\* if options.srt { let srts = Srt::from(response.clone()); .. }
\* The conversion is infallible (From): on a timestamp the formatter cannot
\* represent it either aborts or returns a document all the same.
RenderSrt ==
    /\ pc = "srt"
    /\ IF ~srt_selected
       THEN pc' = "beast" /\ UNCHANGED <<result, srts>>
       ELSE \/ /\ srts' = SrtFrom(response)
               /\ pc' = "srt_loop"
               /\ result' = result
            \/ /\ has_invalid_timestamp("srt", response)
               /\ srts' = srts
               /\ pc' = "done"
               /\ result' = Panic("Srt::from")
    /\ visited' = 0
    /\ UNCHANGED <<options, source, dg_calls, response, written, tc>>

\* one iteration of the srt loops, up to its File::create / write_all
WriteSrt ==
    /\ pc = "srt_loop"
    /\ LET order == document_order(srts)
       IN  IF visited = Len(order)
           THEN pc' = "beast" /\ UNCHANGED <<result, written, visited>>
           ELSE LET channel_id == order[visited + 1][1]
                    alternative_id == order[visited + 1][2]
                IN  IF file_stem(output_location) = <<>>
                    THEN /\ pc' = "done"
                         /\ result' = Panic("file_stem().unwrap()")
                         /\ UNCHANGED <<written, visited>>
                    ELSE /\ CreateAndWrite(
                                srt_output(output_location, channel_id, alternative_id),
                                "srt", channel_id, alternative_id, <<>>,
                                loop_document(srts, channel_id, alternative_id),
                                "srt_loop")
                         /\ visited' = visited + 1
    /\ UNCHANGED <<options, source, dg_calls, response, srts, tc>>

\* if options.beast_captions { let srts = BeastCaptions::from(response); .. }
RenderBeast ==
    /\ pc = "beast"
    /\ IF ~beast_selected
       THEN pc' = "markdown" /\ UNCHANGED <<result, srts>>
       ELSE \/ /\ srts' = BeastCaptionsFrom(response)
               /\ pc' = "beast_loop"
               /\ result' = result
            \/ /\ has_invalid_timestamp("beast", response)
               /\ srts' = srts
               /\ pc' = "done"
               /\ result' = Panic("BeastCaptions::from")
    /\ visited' = 0
    /\ UNCHANGED <<options, source, dg_calls, response, written, tc>>

\* one iteration of the beast loops, up to its File::create / write_all
WriteBeast ==
    /\ pc = "beast_loop"
    /\ LET order == document_order(srts)
       IN  IF visited = Len(order)
           THEN pc' = "markdown" /\ UNCHANGED <<result, written, visited>>
           ELSE LET channel_id == order[visited + 1][1]
                    alternative_id == order[visited + 1][2]
                IN  IF file_stem(output_location) = <<>>
                    THEN /\ pc' = "done"
                         /\ result' = Panic("file_stem().unwrap()")
                         /\ UNCHANGED <<written, visited>>
                    ELSE /\ CreateAndWrite(
                                beast_output(output_location, channel_id, alternative_id),
                                "beast", channel_id, alternative_id, <<>>,
                                loop_document(srts, channel_id, alternative_id),
                                "beast_loop")
                         /\ visited' = visited + 1
    /\ UNCHANGED <<options, source, dg_calls, response, srts, tc>>

\* if options.markdown { warn!(..) }; Ok(())
\* options.markdown is read here and nowhere else, and changes nothing
Finish ==
    /\ pc = "markdown"
    /\ \E markdown \in BOOLEAN :
            /\ pc' = "done"
            /\ result' = Ok
    /\ UNCHANGED <<options, source, dg_calls, response, srts, visited, written, tc>>

Next ==
    \/ CheckOutputDir
    \/ OpenSource
    \/ CallDeepgram
    \/ WriteRaw
    \/ WriteTranscript
    \/ RenderSrt
    \/ WriteSrt
    \/ RenderBeast
    \/ WriteBeast
    \/ Finish

Spec == Init /\ [][Next]_vars

-----------------------------------------------------------------------------
(* The timecode formatter on its own: a seconds value is formatted, and    *)
(* the timecode is read back.                                              *)

digit_value(d) == CHOOSE n \in 0..9 : Digits[n + 1] = d

RECURSIVE number_of(_)
number_of(digits) ==
    IF digits = <<>> THEN 0
    ELSE number_of(SubSeq(digits, 1, Len(digits) - 1)) * 10
         + digit_value(digits[Len(digits)])

\* the whole milliseconds a timecode HH:MM:SS,mmm stands for
parse_timecode(text) ==
    LET colons == {i \in 1..Len(text) : text[i] = ":"}
        c1 == CHOOSE i \in colons : \A j \in colons : i <= j
        c2 == CHOOSE i \in colons : \A j \in colons : j <= i
        k  == CHOOSE i \in 1..Len(text) : text[i] = ","
    IN  number_of(SubSeq(text, 1, c1 - 1)) * 3600000
        + number_of(SubSeq(text, c1 + 1, c2 - 1)) * 60000
        + number_of(SubSeq(text, c2 + 1, k - 1)) * 1000
        + number_of(SubSeq(text, k + 1, Len(text)))

TimecodeInputs ==
    {Seconds(h * 3600 + m * 60 + sec, f) :
        h \in {0, 1, MaxHours}, m \in {0, 1, 59}, sec \in {0, 1, 59},
        f \in {0, 1500, 234000, 999900, 999999}}

InitTimecode ==
    /\ options = [output_path |-> NoPath, raw |-> FALSE, srt |-> FALSE,
                  beast_captions |-> FALSE, transcript |-> FALSE]
    /\ pc = "idle"
    /\ result = Running
    /\ source = "none"
    /\ dg_calls = <<>>
    /\ response = NoResponse
    /\ srts = <<>>
    /\ visited = 0
    /\ written = <<>>
    /\ \E seconds \in TimecodeInputs :
            tc = [pc |-> "input", seconds |-> seconds, text |-> <<>>, ms |-> 0]

FormatTimecode ==
    /\ tc.pc = "input"
    /\ tc' = [tc EXCEPT !.pc = "formatted", !.text = format_timecode(tc.seconds)]
    /\ UNCHANGED <<options, pc, result, source, dg_calls, response, srts, visited, written>>

ParseTimecode ==
    /\ tc.pc = "formatted"
    /\ tc' = [tc EXCEPT !.pc = "parsed", !.ms = parse_timecode(tc.text)]
    /\ UNCHANGED <<options, pc, result, source, dg_calls, response, srts, visited, written>>

NextTimecode ==
    \/ FormatTimecode
    \/ ParseTimecode

SpecTimecode == InitTimecode /\ [][NextTimecode]_vars

-----------------------------------------------------------------------------
(* Properties                                                              *)

\* the files of one kind ("raw", "txt", "srt", "beast") created so far
entries_of(kind) == SelectSeq(written, LAMBDA e : e.kind = kind)

document_id(e) == <<e.channel_id, e.alternative_id>>

\* the (channel, alternative) positions of the transcription result, 0-based
pairs_of(resp) ==
    UNION {{<<c - 1, a - 1>> : a \in 1..Len(resp.channels[c].alternatives)} :
              c \in 1..Len(resp.channels)}

\* the units a renderer reads at position (c, a) of the response
source_units(kind, c, a) ==
    units_of(kind, response.channels[c + 1].alternatives[a + 1])

selected(kind) == IF kind = "srt" THEN options.srt ELSE options.beast_captions

\* <base>: the file name of the output path without its final extension
base_of(loc) ==
    IF LastDot(loc.name) > 1 THEN SubSeq(loc.name, 1, LastDot(loc.name) - 1)
    ELSE loc.name

\* <base>-channel-{c}-alternative-{a}.srt or ..-beast.srt beside the output path
claimed_path(kind, loc, c, a) ==
    FilePath(loc.dir,
             base_of(loc) \o <<"-channel-">> \o Decimal(c)
                 \o <<"-alternative-">> \o Decimal(a)
                 \o (IF kind = "beast" THEN <<"-beast">> ELSE <<>>)
                 \o <<".", "srt">>)

\* C1: every utterance document is written to <base>-channel-{c}-alternative-{a}.srt
\* and every word document to <base>-channel-{c}-alternative-{a}-beast.srt, in
\* the directory of the output path, <base> being its file name without the
\* final extension.
C1_DocumentFileNames ==
    \A i \in 1..Len(written) :
        written[i].kind \in {"srt", "beast"} =>
            written[i].path = claimed_path(written[i].kind, output_location,
                                           written[i].channel_id,
                                           written[i].alternative_id)

lex_less(p, q) == p[1] < q[1] \/ (p[1] = q[1] /\ p[2] < q[2])

\* C2: for each renderer the files are created one per (channel, alternative)
\* position of the result, in increasing channel and then alternative order,
\* none passed over (the i-th file is for the position with i - 1 positions
\* before it); when the run returns Ok every position of a selected renderer
\* has its file, a document without cues included (an empty file).
C2_OneFilePerDocumentInOrder ==
    \A kind \in {"srt", "beast"} :
        LET log == entries_of(kind)
        IN  /\ \A i \in 1..Len(log) : document_id(log[i]) \in pairs_of(response)
            /\ \A i \in 1..(Len(log) - 1) :
                    lex_less(document_id(log[i]), document_id(log[i + 1]))
            /\ \A i \in 1..Len(log) :
                    Cardinality({p \in pairs_of(response) :
                                    lex_less(p, document_id(log[i]))}) = i - 1
            /\ (result = Ok /\ selected(kind)) =>
                  \A p \in pairs_of(response) :
                      \E i \in 1..Len(log) :
                          /\ document_id(log[i]) = p
                          /\ log[i].complete
                          /\ (source_units(kind, p[1], p[2]) = <<>>
                                => log[i].cues = <<>>)

\* C2 witness: a run over 2 channels x 2 alternatives returned Ok with four
\* utterance files, one of them empty and one of them not
C2_Witness ==
    /\ result = Ok
    /\ options.srt
    /\ Cardinality(pairs_of(response)) = 4
    /\ Len(entries_of("srt")) = 4
    /\ \E i \in 1..Len(written) : written[i].kind = "srt" /\ written[i].cues = <<>>
    /\ \E i \in 1..Len(written) : written[i].kind = "srt" /\ written[i].cues # <<>>

\* C3: utterance documents are written only when srt is set and word
\* documents only when beast_captions is set; a run that returns Ok over a
\* result with at least one alternative wrote utterance documents exactly
\* when srt is set and word documents exactly when beast_captions is set; with
\* neither flag no subtitle document is written.
C3_RenderersFollowFlags ==
    /\ \A i \in 1..Len(written) :
          /\ written[i].kind = "srt" => options.srt
          /\ written[i].kind = "beast" => options.beast_captions
    /\ (result = Ok /\ pairs_of(response) # {}) =>
          /\ options.srt <=> entries_of("srt") # <<>>
          /\ options.beast_captions <=> entries_of("beast") # <<>>
    /\ (~options.srt /\ ~options.beast_captions) =>
          \A i \in 1..Len(written) : written[i].kind \in {"raw", "txt"}

\* C3 witness: a run with srt set and beast_captions not set returned Ok,
\* having written raw, transcript and utterance files and no word file
C3_Witness ==
    /\ result = Ok
    /\ options.srt /\ ~options.beast_captions /\ options.raw /\ options.transcript
    /\ entries_of("srt") # <<>>
    /\ entries_of("beast") = <<>>

cues_match(cues, src) ==
    /\ Len(cues) = Len(src)
    /\ \A k \in 1..Len(cues) :
          /\ cues[k].index = k
          /\ cues[k].text = src[k].text
          /\ valid_timestamp(src[k].start)
                => parse_timecode(cues[k].start) = total_ms(src[k].start)
          /\ valid_timestamp(src[k].end)
                => parse_timecode(cues[k].end) = total_ms(src[k].end)

has_corrupt_timecode(cues) ==
    \E k \in 1..Len(cues) :
        cues[k].start = CorruptTimecode \/ cues[k].end = CorruptTimecode

\* C5: a timestamp the formatter cannot represent makes the rendering fail
\* with an InvalidTimestamp error returned to the caller: the renderer neither
\* aborts the run nor returns documents, and no document with a corrupt
\* timecode is written.
C5_InvalidTimestampSurfaced ==
    /\ pc = "srt_loop" => ~has_invalid_timestamp("srt", response)
    /\ pc = "beast_loop" => ~has_invalid_timestamp("beast", response)
    /\ result.kind = "Panic" =>
          result.error \notin {"Srt::from", "BeastCaptions::from"}
    /\ \A i \in 1..Len(written) : ~has_corrupt_timecode(written[i].cues)

\* C6: within 0..359999999 ms, total_ms is the floor of seconds * 1000, its
\* parts by the bases 3,600,000 / 60,000 / 1,000 have MM and SS in 0..59 and
\* mmm in 0..999, the timecode is HH:MM:SS,mmm, and reading the timecode back
\* gives total_ms; 59.9999 s gives 00:00:59,999.
C6_TimecodeRoundTrip ==
    LET ms == total_ms(tc.seconds)
        p  == timecode_parts(ms)
        k  == ms - tc.seconds.whole * 1000
    IN  (tc.pc \in {"formatted", "parsed"} /\ ms \in 0..359999999) =>
            /\ k * 1000 <= tc.seconds.micros
            /\ tc.seconds.micros < (k + 1) * 1000
            /\ p.mm \in 0..59 /\ p.ss \in 0..59 /\ p.mmm \in 0..999
            /\ p.hh * 3600000 + p.mm * 60000 + p.ss * 1000 + p.mmm = ms
            /\ Len(tc.text) = 12
            /\ tc.text[3] = ":" /\ tc.text[6] = ":" /\ tc.text[9] = ","
            /\ number_of(SubSeq(tc.text, 1, 2)) = p.hh
            /\ number_of(SubSeq(tc.text, 4, 5)) = p.mm
            /\ number_of(SubSeq(tc.text, 7, 8)) = p.ss
            /\ number_of(SubSeq(tc.text, 10, 12)) = p.mmm
            /\ tc.pc = "parsed" => tc.ms = ms
            /\ tc.seconds = Seconds(59, 999900) =>
                  tc.text = <<"0", "0", ":", "0", "0", ":", "5", "9", ",", "9", "9", "9">>

\* C6 witness: 59.9999 s was formatted as 00:00:59,999 and read back
C6_Witness ==
    /\ tc.pc = "parsed"
    /\ tc.seconds = Seconds(59, 999900)
    /\ tc.text = <<"0", "0", ":", "0", "0", ":", "5", "9", ",", "9", "9", "9">>
    /\ tc.ms = 59999

\* C7: the provider is called at most once; a file exists only after that
\* call succeeded; a failed call ends the run with DeepgramError and no file.
C7_ProviderCalledOnce ==
    /\ Len(dg_calls) <= 1
    /\ written # <<>> => dg_calls = <<"ok">>
    /\ (dg_calls # <<>> /\ dg_calls[Len(dg_calls)] = "failed") =>
          /\ result = Err("DeepgramError")
          /\ pc = "done"
          /\ written = <<>>
    /\ result = Err("DeepgramError") => dg_calls = <<"failed">>

\* C7 witness: with every output selected the single call failed
C7_Witness ==
    /\ dg_calls = <<"failed">>
    /\ options.raw /\ options.transcript /\ options.srt /\ options.beast_captions
    /\ result = Err("DeepgramError")

\* the output path fails the directory check, as C8 words it
dir_check_fails(loc) ==
    \/ loc.kind = "file" /\ loc.dir # "" /\ loc.dir \notin ExistingDirs
    \/ loc.kind # "file" /\ loc.dir \notin ExistingDirs

\* C8: the directory check comes first; an output path (default transcript.srt)
\* with a file name and a non-empty parent that does not exist, or without a
\* file name and not existing, ends the run with OutputDirNotExistError
\* carrying the path, the input not opened, the provider not called, no file
\* created; any other path, a bare file name included, passes.
C8_OutputDirCheckedFirst ==
    LET loc == IF options.output_path = NoPath
               THEN FilePath("", <<"transcript", ".", "srt">>)
               ELSE options.output_path
    IN  /\ pc = "check_output_dir" =>
              source = "none" /\ dg_calls = <<>> /\ written = <<>> /\ result = Running
        /\ (pc \notin {"check_output_dir", "idle"} /\ dir_check_fails(loc)) =>
              /\ result = [kind |-> "Err", error |-> "OutputDirNotExistError",
                           output_dir |-> loc]
              /\ pc = "done"
              /\ source = "none" /\ dg_calls = <<>> /\ written = <<>>
        /\ (pc \notin {"check_output_dir", "idle"} /\ ~dir_check_fails(loc)) =>
              result.error # "OutputDirNotExistError"

\* C8 witness: the parent of the output path is missing and the run has ended
C8_Witness ==
    /\ options.output_path = FilePath("missing", <<"a", ".", "srt">>)
    /\ options.srt
    /\ pc = "done"
    /\ result.error = "OutputDirNotExistError"

\* C9: the subtitle files written for distinct (renderer, channel,
\* alternative) triples have distinct paths.
C9_NoDocumentOverwritten ==
    \A i \in 1..Len(written) : \A j \in 1..Len(written) :
        (i < j /\ written[i].kind \in {"srt", "beast"}
               /\ written[j].kind \in {"srt", "beast"})
            => written[i].path # written[j].path

\* C10: once the directory check has passed the run never aborts while
\* deriving an output file name: the output path has a file stem whenever an
\* srt or beast document is written, also when it has no file name.
C10_NoAbortAfterDirCheck ==
    ~(result.kind = "Panic" /\ result.error = "file_stem().unwrap()")

=============================================================================
